---- MODULE Spec2Model ----
(***************************************************************************)
(* A model of the todo.txt manager: the record codec (src/src/todo.rs),    *)
(* the storage layer (src/src/storage.rs) and the command interpreter      *)
(* (src/src/command.rs).                                                   *)
(*                                                                         *)
(* Strings are sequences of one-character strings, so that trimming,       *)
(* splitting, prefix tests, date parsing and formatting are computed the   *)
(* way the code computes them.  The file todo.txt is a sequence of lines   *)
(* (an absent file and an empty file both load as the empty collection).   *)
(* Option<T> is a sequence of length 0 (None) or 1 (Some).                 *)
(***************************************************************************)
EXTENDS Integers, Sequences, FiniteSets, TLC

None == <<>>
Some(v) == <<v>>
IsSome(o) == Len(o) = 1
Unwrap(o) == o[1]

(***************************************************************************)
(* String helpers (std::str)                                               *)
(***************************************************************************)
WhiteSpace == {" ", "\t"}

Digits == <<"0", "1", "2", "3", "4", "5", "6", "7", "8", "9">>

IsDigit(c) == \E i \in 1..10 : Digits[i] = c

DigitVal(c) == (CHOOSE i \in 1..10 : Digits[i] = c) - 1

StartsWith(s, p) == Len(s) >= Len(p) /\ SubSeq(s, 1, Len(p)) = p

EndsWith(s, p) == Len(s) >= Len(p) /\ SubSeq(s, Len(s) - Len(p) + 1, Len(s)) = p

Contains(s, c) == \E i \in 1..Len(s) : s[i] = c

DropPrefix(s, n) == SubSeq(s, n + 1, Len(s))

RECURSIVE TrimStart(_)
TrimStart(s) ==
    IF s # <<>> /\ s[1] \in WhiteSpace THEN TrimStart(Tail(s)) ELSE s

RECURSIVE TrimEnd(_)
TrimEnd(s) ==
    IF s # <<>> /\ s[Len(s)] \in WhiteSpace
    THEN TrimEnd(SubSeq(s, 1, Len(s) - 1)) ELSE s

Trim(s) == TrimEnd(TrimStart(s))

IsBlank(s) == Trim(s) = <<>>

\* str::split_whitespace: the maximal runs of non-whitespace characters.
RECURSIVE SplitFrom(_, _, _)
SplitFrom(s, cur, acc) ==
    IF s = <<>>
    THEN IF cur = <<>> THEN acc ELSE Append(acc, cur)
    ELSE IF s[1] \in WhiteSpace
         THEN SplitFrom(Tail(s), <<>>, IF cur = <<>> THEN acc ELSE Append(acc, cur))
         ELSE SplitFrom(Tail(s), Append(cur, s[1]), acc)

SplitWhitespace(s) == SplitFrom(s, <<>>, <<>>)

\* [String]::join(" ")
RECURSIVE JoinSp(_)
JoinSp(parts) ==
    IF parts = <<>> THEN <<>>
    ELSE IF Len(parts) = 1 THEN parts[1]
    ELSE parts[1] \o <<" ">> \o JoinSp(Tail(parts))

\* str::strip_prefix
StripPrefix(s, p) == IF StartsWith(s, p) THEN Some(DropPrefix(s, Len(p))) ELSE None

\* Split a token at every occurrence of character c (fields may be empty).
RECURSIVE FieldsFrom(_, _, _, _)
FieldsFrom(s, c, cur, acc) ==
    IF s = <<>> THEN Append(acc, cur)
    ELSE IF s[1] = c THEN FieldsFrom(Tail(s), c, <<>>, Append(acc, cur))
    ELSE FieldsFrom(Tail(s), c, Append(cur, s[1]), acc)

AllDigits(s) == s # <<>> /\ \A i \in 1..Len(s) : IsDigit(s[i])

RECURSIVE NumVal(_)
NumVal(s) == IF s = <<>> THEN 0 ELSE NumVal(SubSeq(s, 1, Len(s) - 1)) * 10 + DigitVal(s[Len(s)])

\* usize::from_str: an optional '+' followed by at least one decimal digit.
ParseUsize(s) ==
    IF s # <<>> /\ s[1] = "+"
    THEN (IF AllDigits(Tail(s)) THEN Some(NumVal(Tail(s))) ELSE None)
    ELSE (IF AllDigits(s) THEN Some(NumVal(s)) ELSE None)

(***************************************************************************)
(* Calendar dates (chrono::NaiveDate), as <<year, month, day>>             *)
(***************************************************************************)
IsLeap(y) == (y % 4 = 0 /\ y % 100 # 0) \/ y % 400 = 0

DaysIn(y, m) ==
    IF m = 2 THEN (IF IsLeap(y) THEN 29 ELSE 28)
    ELSE IF m \in {4, 6, 9, 11} THEN 30 ELSE 31

\* NaiveDate::from_ymd_opt: the three numbers name a day of the calendar
DateOfNumbers(y, m, d) ==
    IF m \in 1..12 /\ d \in 1..DaysIn(y, m) THEN Some(<<y, m, d>>) ELSE None

\* A numeric field of a date: 1..width decimal digits
IsDateField(s, width) == AllDigits(s) /\ Len(s) <= width

DateOfFields(f) ==
    IF Len(f) = 3 /\ IsDateField(f[1], 4) /\ IsDateField(f[2], 2) /\ IsDateField(f[3], 2)
    THEN DateOfNumbers(NumVal(f[1]), NumVal(f[2]), NumVal(f[3]))
    ELSE None

\* NaiveDate::parse_from_str(t, "%Y-%m-%d") for unsigned years: 1..4 digits
\* of year, 1..2 of month and of day, separated by '-', nothing after, and
\* the three numbers name a day of the calendar.
ParseDate(t) == DateOfFields(FieldsFrom(t, "-", <<>>, <<>>))

RECURSIVE PadNum(_, _)
PadNum(n, width) ==
    IF width = 0 THEN <<>>
    ELSE PadNum(n \div 10, width - 1) \o <<Digits[(n % 10) + 1]>>

\* NaiveDate::format("%Y-%m-%d") for years 0..9999
FormatDate(d) == PadNum(d[1], 4) \o <<"-">> \o PadNum(d[2], 2) \o <<"-">> \o PadNum(d[3], 2)

\* Ord for NaiveDate, as an order-preserving integer key
DateKey(d) == d[1] * 10000 + d[2] * 100 + d[3]

\* Local::now().date_naive(): the day the session runs on
Today == <<2024, 6, 15>>

(***************************************************************************)
(* Record codec: Todo::parse, Todo::format, Todo::mark_done, from_add      *)
(***************************************************************************)
\* A `due:` token: due is set when the rest parses as a date, and the whole
\* token becomes the supplement either way.
DueStep(acc, w, d) ==
    [acc EXCEPT !.due = IF IsSome(d) THEN d ELSE @, !.supplement = Some(w)]

\* One step of the classification loop over the description tokens.
ClassifyStep(acc, w) ==
    IF StartsWith(w, <<"+">>) THEN [acc EXCEPT !.project = Some(DropPrefix(w, 1))]
    ELSE IF StartsWith(w, <<"@">>) THEN [acc EXCEPT !.context = Some(DropPrefix(w, 1))]
    ELSE IF StartsWith(w, <<"d", "u", "e", ":">>) THEN DueStep(acc, w, ParseDate(DropPrefix(w, 4)))
    ELSE IF acc.supplement = None /\ (Contains(w, ":") \/ Contains(w, "="))
         THEN [acc EXCEPT !.supplement = Some(w)]
    ELSE [acc EXCEPT !.content = Append(@, w)]

RECURSIVE Classify(_, _)
Classify(ws, acc) ==
    IF ws = <<>> THEN acc ELSE Classify(Tail(ws), ClassifyStep(acc, ws[1]))

\* The description before any token is classified
EmptyDescription ==
    [content |-> <<>>, project |-> None, context |-> None, supplement |-> None, due |-> None]

\* Is the token in priority position taken as the priority?
IsPriorityToken(tok) ==
    Len(tok) = 3 /\ StartsWith(tok, <<"(">>) /\ EndsWith(tok, <<")">>)

\* tokens.get(i).and_then(parse date), i counted from 1
DateAt(tokens, i) == IF i <= Len(tokens) THEN ParseDate(tokens[i]) ELSE None

\* ParseDates taking a single leading date as the completion date
ParseDatesFirstIsCompletion(completion, d1, d2) ==
    IF completion /\ IsSome(d1) /\ IsSome(d2) THEN <<d1, d2, 2>>
    ELSE IF ~completion /\ IsSome(d1) THEN <<d1, None, 1>>
    ELSE <<None, None, 0>>

\* The dates step: <<completion_date, creation_date, tokens consumed>>
ParseDates(completion, d1, d2) ==
    IF completion /\ IsSome(d1) /\ IsSome(d2) THEN <<d1, d2, 2>>
    ELSE IF ~completion /\ IsSome(d1) THEN <<None, d1, 1>>
    ELSE <<None, None, 0>>

\* Self { .. }: desc is the description as classified, content still a list
MakeTodo(completion, priority, dates, desc) ==
    [completion |-> completion,
     priority |-> priority,
     completion_date |-> dates[1],
     creation_date |-> dates[2],
     content |-> JoinSp(desc.content),
     project |-> desc.project,
     context |-> desc.context,
     supplement |-> desc.supplement,
     due |-> desc.due]

\* Todo::parse from the description on; i is the first token after the
\* priority, counted from 1
ParseDescription(tokens, completion, priority, i, dates) ==
    MakeTodo(completion, priority, dates,
             Classify(SubSeq(tokens, i + dates[3], Len(tokens)), EmptyDescription))

\* Todo::parse from the dates on
ParseFromDates(tokens, completion, priority, i) ==
    ParseDescription(tokens, completion, priority, i,
                     ParseDates(completion, DateAt(tokens, i), DateAt(tokens, i + 1)))

\* Todo::parse from the priority on; i is the first token after the marker
ParseFromPriority(tokens, completion, i) ==
    IF i <= Len(tokens) /\ IsPriorityToken(tokens[i])
    THEN ParseFromDates(tokens, completion, Some(tokens[i][2]), i + 1)
    ELSE ParseFromDates(tokens, completion, None, i)

\* Todo::parse from the completion marker on
ParseFromMarker(tokens, completion) ==
    ParseFromPriority(tokens, completion, IF completion THEN 2 ELSE 1)

ParseTokens(tokens) ==
    ParseFromMarker(tokens, Len(tokens) >= 1 /\ tokens[1] = <<"x">>)

Parse(line) == ParseTokens(SplitWhitespace(Trim(line)))

Format(t) ==
    JoinSp(
            (IF t.completion THEN << <<"x">> >> ELSE <<>>)
         \o (IF IsSome(t.priority) THEN << <<"(", Unwrap(t.priority), ")">> >> ELSE <<>>)
         \o (IF t.completion /\ IsSome(t.completion_date)
             THEN << FormatDate(Unwrap(t.completion_date)) >> ELSE <<>>)
         \o (IF IsSome(t.creation_date) THEN << FormatDate(Unwrap(t.creation_date)) >> ELSE <<>>)
         \o << t.content >>
         \o (IF IsSome(t.project) THEN << <<"+">> \o Unwrap(t.project) >> ELSE <<>>)
         \o (IF IsSome(t.context) THEN << <<"@">> \o Unwrap(t.context) >> ELSE <<>>)
         \o (IF IsSome(t.supplement) THEN << Unwrap(t.supplement) >> ELSE <<>>))

mark_done(t) ==
    IF ~t.completion
    THEN [t EXCEPT !.completion = TRUE, !.completion_date = Some(Today)]
    ELSE t

\* CheckAdd stamping today's date over a creation date the parse found
CheckAddAlwaysStamps(t) ==
    IF IsBlank(t.content) THEN [ok |-> FALSE, todo |-> t]
    ELSE [ok |-> TRUE, todo |-> [t EXCEPT !.creation_date = Some(Today)]]

\* CheckAdd without the test of the content
CheckAddAcceptsEmpty(t) ==
    [ok |-> TRUE,
     todo |-> IF t.creation_date = None
              THEN [t EXCEPT !.creation_date = Some(Today)] ELSE t]

\* from_add after the parse.  Result<Todo, String> as [ok, todo]
CheckAdd(t) ==
    IF IsBlank(t.content) THEN [ok |-> FALSE, todo |-> t]
    ELSE [ok |-> TRUE,
          todo |-> IF t.creation_date = None
                   THEN [t EXCEPT !.creation_date = Some(Today)] ELSE t]

from_add(input) == CheckAdd(Parse(input))

(***************************************************************************)
(* Storage: load_all, rewrite_file, append_one over the lines of todo.txt  *)
(*                                                                         *)
(* A write outcome is [ok, at].  ok = TRUE: the call returned Ok.          *)
(* ok = FALSE, at = 0: opening the file failed, nothing was touched.       *)
(* ok = FALSE, at = k > 0 (rewrite_file only): the file was truncated and  *)
(* the k-th writeln! failed, so the first k-1 lines are in the file.       *)
(***************************************************************************)
WOk == [ok |-> TRUE, at |-> 0]

WFail(k) == [ok |-> FALSE, at |-> k]

load_all(f) == [i \in 1..Len(f) |-> Parse(f[i])]

\* What rewrite_file leaves of the lines it was to write
WriteLines(f, lines, w) ==
    IF w.ok THEN [ok |-> TRUE, file |-> lines]
    ELSE IF w.at = 0 THEN [ok |-> FALSE, file |-> f]
    ELSE [ok |-> FALSE, file |-> SubSeq(lines, 1, w.at - 1)]

rewrite_file(f, ts, w) == WriteLines(f, [i \in 1..Len(ts) |-> Format(ts[i])], w)

append_one(f, t, w) ==
    IF w.ok THEN [ok |-> TRUE, file |-> Append(f, Format(t))]
    ELSE [ok |-> FALSE, file |-> f]

(***************************************************************************)
(* Command interpreter: execute_command                                    *)
(***************************************************************************)
KwList == <<"l", "i", "s", "t">>
KwAdd == <<"a", "d", "d">>
KwDone == <<"d", "o", "n", "e">>
KwRemove == <<"r", "e", "m", "o", "v", "e">>
KwClosest == <<"c", "l", "o", "s", "e", "s", "t">>
KwImportant == <<"i", "m", "p", "o", "r", "t", "a", "n", "t">>

\* (0..n).collect()
AllIndices(n) == [i \in 1..n |-> i - 1]

\* Vec::remove(idx), idx counted from 0
RemoveAt(ts, idx) == SubSeq(ts, 1, idx) \o SubSeq(ts, idx + 2, Len(ts))

\* cmd.split_whitespace().next()
FirstOf(ws) == IF ws = <<>> THEN None ELSE Some(ws[1])

Keyword(cmd) == FirstOf(SplitWhitespace(cmd))

NoError == None

Err(msg, word) == Some([msg |-> msg, word |-> word])

\* Ord for char, over the characters the model writes (ASCII order)
Ascii == <<"\t", " ", "(", ")", "+", "-", "0", "1", "2", "3", "4", "5", "6", "7", "8", "9", ":", "=", "@", "A", "B", "C", "D", "E", "F", "G", "H", "I", "J", "K", "L", "M", "N", "O", "P", "Q", "R", "S", "T", "U", "V", "W", "X", "Y", "Z", "a", "b", "c", "d", "e", "f", "g", "h", "i", "j", "k", "l", "m", "n", "o", "p", "q", "r", "s", "t", "u", "v", "w", "x", "y", "z">>

CharKey(c) == CHOOSE i \in 1..Len(Ascii) : Ascii[i] = c

\* Vec::sort_by_key on (index, key) pairs: stable, ascending by key
RECURSIVE InsertByKey(_, _)
InsertByKey(sorted, p) ==
    IF sorted = <<>> THEN <<p>>
    ELSE IF sorted[Len(sorted)][2] <= p[2] THEN Append(sorted, p)
    ELSE Append(InsertByKey(SubSeq(sorted, 1, Len(sorted) - 1), p), sorted[Len(sorted)])

RECURSIVE SortByKey(_)
SortByKey(pairs) ==
    IF pairs = <<>> THEN <<>>
    ELSE InsertByKey(SortByKey(SubSeq(pairs, 1, Len(pairs) - 1)), pairs[Len(pairs)])

\* iter().enumerate().filter_map(..).collect() for `closest`
RECURSIVE DuePairs(_, _)
DuePairs(ts, n) ==
    IF n = 0 THEN <<>>
    ELSE DuePairs(ts, n - 1)
         \o (IF ~ts[n].completion /\ IsSome(ts[n].due)
             THEN << <<n - 1, DateKey(Unwrap(ts[n].due))>> >> ELSE <<>>)

\* the same for `important`
RECURSIVE PriorityPairs(_, _)
PriorityPairs(ts, n) ==
    IF n = 0 THEN <<>>
    ELSE PriorityPairs(ts, n - 1)
         \o (IF ~ts[n].completion /\ IsSome(ts[n].priority)
             THEN << <<n - 1, CharKey(Unwrap(ts[n].priority))>> >> ELSE <<>>)

Firsts(pairs) == [i \in 1..Len(pairs) |-> pairs[i][1]]

\* Every branch returns the CommandResult together with the file it leaves
\* and two observations: the storage write calls it made (with the number
\* of lines each was given) and the collection index it resolved, if any.
Result(ts, v, e, f) ==
    [todos |-> ts, view |-> v, error |-> e, file |-> f, writes |-> <<>>, target |-> None]

Wrote(call, n) == << [call |-> call, lines |-> n] >>

\* The result of a command that ends by reloading: load_all and the view
\* of all indices
Reloaded(loaded, f) == Result(loaded, AllIndices(Len(loaded)), NoError, f)

\* ListCmd leaving the view as it was
ListCmdKeepsView(ts, v, f) == Result(load_all(f), v, NoError, f)

ListCmd(ts, v, f) == Reloaded(load_all(f), f)

\* `add` after append_one returned a
AddAppended(ts, v, t, a) ==
    IF a.ok
    THEN [Result(Append(ts, t), AllIndices(Len(ts) + 1), NoError, a.file)
              EXCEPT !.writes = Wrote("append_one", 1)]
    ELSE [Result(ts, v, NoError, a.file) EXCEPT !.writes = Wrote("append_one", 1)]

\* AddParsed with the append made before the content is validated
AddParsedWritesFirst(ts, v, f, w, r) ==
    IF r.ok THEN AddAppended(ts, v, r.todo, append_one(f, r.todo, w))
    ELSE Result(ts, v, Err("Task must include non-empty description", <<>>),
                append_one(f, r.todo, w).file)

\* `add` after from_add returned r
AddParsed(ts, v, f, w, r) ==
    IF r.ok THEN AddAppended(ts, v, r.todo, append_one(f, r.todo, w))
    ELSE Result(ts, v, Err("Task must include non-empty description", <<>>), f)

\* `add` after strip_prefix returned rest
AddRest(ts, v, f, w, rest) ==
    IF IsSome(rest) THEN AddParsed(ts, v, f, w, from_add(Trim(Unwrap(rest))))
    ELSE Result(ts, v, Err("Usage: add <todo>", <<>>), f)

AddCmd(ts, v, f, cmd, w) == AddRest(ts, v, f, w, StripPrefix(cmd, KwAdd \o <<" ">>))

\* id >= 1 && id <= view.len()
IdInRange(id, v) == id >= 1 /\ id <= Len(v)

\* The index a parsed id names: kind is "ok" and idx = view[id - 1] when the
\* id is in range, "invalid" otherwise
ResolveParsed(v, id) ==
    IF IdInRange(id, v) THEN [kind |-> "ok", idx |-> v[id]]
    ELSE [kind |-> "invalid", idx |-> 0]

\* kind is "usage" when the argument is no usize
ResolveArg(v, id) ==
    IF IsSome(id) THEN ResolveParsed(v, Unwrap(id)) ELSE [kind |-> "usage", idx |-> 0]

\* kind is "missing" when the prefix `<keyword> ` is not there
ResolvePrefix(v, arg) ==
    IF IsSome(arg) THEN ResolveArg(v, ParseUsize(Trim(Unwrap(arg))))
    ELSE [kind |-> "missing", idx |-> 0]

\* The argument of `done` / `remove`: strip_prefix, parse::<usize>, the
\* range test and the lookup in the view.
ResolveId(v, cmd, kw) == ResolvePrefix(v, StripPrefix(cmd, kw \o <<" ">>))

\* `done` / `remove` after rewrite_file returned rw: reload, reset the view
AfterRewrite(rw, n, idx) ==
    [Reloaded(load_all(rw.file), rw.file)
         EXCEPT !.writes = Wrote("rewrite_file", n), !.target = Some(idx)]

\* AfterRewriteOf keeping the collection in memory when the rewrite fails
AfterRewriteKeepsOnFailure(ts, rw, idx) ==
    IF rw.ok THEN AfterRewrite(rw, Len(ts), idx)
    ELSE [Result(ts, AllIndices(Len(ts)), NoError, rw.file)
              EXCEPT !.writes = Wrote("rewrite_file", Len(ts)), !.target = Some(idx)]

\* `done` / `remove` after rewrite_file was given the collection ts
AfterRewriteOf(ts, rw, idx) == AfterRewrite(rw, Len(ts), idx)

\* `done` / `remove` from the rewrite on: ts is the collection as mutated
RewriteAndReload(ts, f, w, idx) == AfterRewriteOf(ts, rewrite_file(f, ts, w), idx)

\* `done` after the argument resolved to a
DoneResolved(ts, v, f, w, a) ==
    IF a.kind = "ok"
    THEN RewriteAndReload([ts EXCEPT ![a.idx + 1] = mark_done(@)], f, w, a.idx)
    ELSE IF a.kind = "invalid" THEN Result(ts, v, Err("Invalid ID", <<>>), f)
    ELSE IF a.kind = "usage" THEN Result(ts, v, Err("Usage: done <ID>", <<>>), f)
    ELSE Result(ts, v, NoError, f)

\* DoneCmd leaving the view as it was
DoneCmdKeepsView(ts, v, f, cmd, w) ==
    [DoneResolved(ts, v, f, w, ResolveId(v, cmd, KwDone)) EXCEPT !.view = v]

DoneCmd(ts, v, f, cmd, w) == DoneResolved(ts, v, f, w, ResolveId(v, cmd, KwDone))

\* `remove` after the argument resolved to a
RemoveResolved(ts, v, f, w, a) ==
    IF a.kind = "ok" THEN RewriteAndReload(RemoveAt(ts, a.idx), f, w, a.idx)
    ELSE IF a.kind = "invalid" THEN Result(ts, v, Err("Invalid ID", <<>>), f)
    ELSE IF a.kind = "usage" THEN Result(ts, v, Err("Usage: remove <ID>", <<>>), f)
    ELSE Result(ts, v, NoError, f)

RemoveCmd(ts, v, f, cmd, w) == RemoveResolved(ts, v, f, w, ResolveId(v, cmd, KwRemove))

\* ClosestCmd without the sort
ClosestCmdUnsorted(ts, v, f) ==
    Result(ts, Firsts(DuePairs(ts, Len(ts))), NoError, f)

ClosestCmd(ts, v, f) ==
    Result(ts, Firsts(SortByKey(DuePairs(ts, Len(ts)))), NoError, f)

\* ImportantCmd working on the collection read back from the file
ImportantCmdReloads(ts, v, f) ==
    Result(load_all(f), Firsts(SortByKey(PriorityPairs(load_all(f), Len(f)))), NoError, f)

ImportantCmd(ts, v, f) ==
    Result(ts, Firsts(SortByKey(PriorityPairs(ts, Len(ts)))), NoError, f)

EmptyCmd(ts, v, f) == Result(ts, v, NoError, f)

UnknownCmd(ts, v, f, other) == Result(ts, v, Err("Unknown command: ", other), f)

\* The match on the first word kw of the trimmed input cmd
Dispatch(ts, v, f, cmd, kw, w) ==
    IF kw = Some(KwList) THEN ListCmd(ts, v, f)
    ELSE IF kw = Some(KwAdd) THEN AddCmd(ts, v, f, cmd, w)
    ELSE IF kw = Some(KwDone) THEN DoneCmd(ts, v, f, cmd, w)
    ELSE IF kw = Some(KwRemove) THEN RemoveCmd(ts, v, f, cmd, w)
    ELSE IF kw = Some(KwClosest) THEN ClosestCmd(ts, v, f)
    ELSE IF kw = Some(KwImportant) THEN ImportantCmd(ts, v, f)
    ELSE IF kw = None THEN EmptyCmd(ts, v, f)
    ELSE UnknownCmd(ts, v, f, Unwrap(kw))

ExecuteTrimmed(ts, v, f, cmd, w) == Dispatch(ts, v, f, cmd, Keyword(cmd), w)

execute_command(ts, v, f, input, w) == ExecuteTrimmed(ts, v, f, Trim(input), w)

(***************************************************************************)
(* Bounds and the inputs the model draws from                              *)
(***************************************************************************)
MaxTodos == 2

MaxInitLen == 2

\* Lines todo.txt may hold when the program starts.
\* (B) 2024-01-01 bar due:2024-03-01
LineDated == <<"(", "B", ")", " ", "2", "0", "2", "4", "-", "0", "1", "-", "0", "1", " ", "b", "a", "r", " ", "d", "u", "e", ":", "2", "0", "2", "4", "-", "0", "3", "-", "0", "1">>

\* (A) baz due:2024-02-01 a:b c=d
LineKv == <<"(", "A", ")", " ", "b", "a", "z", " ", "d", "u", "e", ":", "2", "0", "2", "4", "-", "0", "2", "-", "0", "1", " ", "a", ":", "b", " ", "c", "=", "d">>

InitLines == {LineDated, LineKv}

\* Arguments typed after `add `.
\* 2024-01-02 tea
AddDated == <<"2", "0", "2", "4", "-", "0", "1", "-", "0", "2", " ", "t", "e", "a">>

\* x foo
AddXFoo == <<"x", " ", "f", "o", "o">>

\* +p
AddNoContent == <<"+", "p">>

AddTexts == {AddDated, AddXFoo, AddNoContent}

NatText(n) == IF n < 10 THEN <<Digits[n + 1]>> ELSE <<Digits[(n \div 10) + 1], Digits[(n % 10) + 1]>>

\* Arguments typed after `done ` and `remove `: every position a view can
\* have, one beyond, zero, and a word that is no number.
IdTexts == {NatText(n) : n \in 0..(MaxTodos + 1)} \cup { <<"z">> }

KwBogus == <<"b", "o", "g", "u", "s">>

Inputs ==
    { KwList, KwClosest, KwImportant, <<>>, KwBogus, KwAdd, KwDone, KwRemove }
    \cup {KwAdd \o <<" ">> \o t : t \in AddTexts}
    \cup {KwDone \o <<" ">> \o a : a \in IdTexts}
    \cup {KwRemove \o <<" ">> \o a : a \in IdTexts}

RECURSIVE SeqsUpTo(_, _)
SeqsUpTo(S, n) ==
    IF n = 0 THEN { <<>> }
    ELSE SeqsUpTo(S, n - 1) \cup {Append(s, x) : s \in {q \in SeqsUpTo(S, n - 1) : Len(q) = n - 1}, x \in S}

(***************************************************************************)
(* State: App (src/src/app.rs) and the file on disk                        *)
(***************************************************************************)
VARIABLES
    todos,  \* App.todos
    view,   \* App.view, indices counted from 0
    error,  \* App.error
    file,   \* the lines of todo.txt
    last,   \* the command that ran last: its input, the outcome of its
            \* storage write, the write calls it made, the index it resolved
    codec   \* a line taken through Parse, Format and Parse again (CodecSpec)

appVars == <<todos, view, error, file, last>>

vars == <<todos, view, error, file, last, codec>>

NoCommand == [input |-> <<>>, w |-> WOk, writes |-> <<>>, target |-> None]

CodecIdle == [line |-> <<>>, task |-> None, text |-> None, back |-> None]

\* App::new
Init ==
    /\ file \in SeqsUpTo(InitLines, MaxInitLen)
    /\ todos = load_all(file)
    /\ view = AllIndices(Len(file))
    /\ error = None
    /\ last = NoCommand
    /\ codec = CodecIdle

\* The outcomes a write call given n lines can have.
WriteOutcomes(n) == {WOk} \cup {WFail(k) : k \in 0..n}

\* App::apply_command: run execute_command on the typed input and take over
\* its result.  (app.rs hands execute_command its collection and view by
\* &mut and keeps the error of the result, command.rs takes them by value
\* and returns them in the result; either way the collection and the view of
\* the result are those of the App after the command.)
Apply(input, w) ==
    \E r \in {execute_command(todos, view, file, input, w)} :
        /\ Len(r.todos) <= MaxTodos
        /\ todos' = r.todos
        /\ view' = r.view
        /\ error' = r.error
        /\ file' = r.file
        /\ last' = [input |-> input, w |-> w, writes |-> r.writes, target |-> r.target]
        /\ UNCHANGED codec

InputsOf(kw) == {i \in Inputs : Keyword(Trim(i)) = kw}

ListInputs == InputsOf(Some(KwList))

AddInputs == InputsOf(Some(KwAdd))

DoneInputs == InputsOf(Some(KwDone))

RemoveInputs == InputsOf(Some(KwRemove))

ClosestInputs == InputsOf(Some(KwClosest))

ImportantInputs == InputsOf(Some(KwImportant))

EmptyInputs == InputsOf(None)

UnknownInputs ==
    Inputs \ (ListInputs \cup AddInputs \cup DoneInputs \cup RemoveInputs
              \cup ClosestInputs \cup ImportantInputs \cup EmptyInputs)

\* Does `add` get as far as append_one?
AddAccepted(input) ==
    AddCmd(<<>>, <<>>, <<>>, Trim(input), WOk).writes # <<>>

\* One action per arm of the match in execute_command, taken when the first
\* word of the input selects it.  A write outcome is drawn only for the
\* write call the command makes.
List ==
    \E input \in Inputs :
        /\ input \in ListInputs
        /\ Apply(input, WOk)

Add ==
    \E input \in Inputs :
        /\ input \in AddInputs
        /\ \E w \in (IF AddAccepted(input) THEN WriteOutcomes(0) ELSE {WOk}) :
               Apply(input, w)

Done ==
    \E input \in Inputs :
        /\ input \in DoneInputs
        /\ \E w \in (IF ResolveId(view, Trim(input), KwDone).kind = "ok"
                     THEN WriteOutcomes(Len(todos)) ELSE {WOk}) :
               Apply(input, w)

Remove ==
    \E input \in Inputs :
        /\ input \in RemoveInputs
        /\ \E w \in (IF ResolveId(view, Trim(input), KwRemove).kind = "ok"
                     THEN WriteOutcomes(Len(todos) - 1) ELSE {WOk}) :
               Apply(input, w)

Closest ==
    \E input \in Inputs :
        /\ input \in ClosestInputs
        /\ Apply(input, WOk)

Important ==
    \E input \in Inputs :
        /\ input \in ImportantInputs
        /\ Apply(input, WOk)

Empty ==
    \E input \in Inputs :
        /\ input \in EmptyInputs
        /\ Apply(input, WOk)

Unknown ==
    \E input \in Inputs :
        /\ input \in UnknownInputs
        /\ Apply(input, WOk)

Next ==
    \/ List
    \/ Add
    \/ Done
    \/ Remove
    \/ Closest
    \/ Important
    \/ Empty
    \/ Unknown

Spec == Init /\ [][Next]_vars

(***************************************************************************)
(* todo.txt is read anew by every load_all, so what another program did    *)
(* to it between two commands shows at the next reload.  Here the file     *)
(* loses its last line between commands; the history of the last command   *)
(* is not kept.                                                            *)
(***************************************************************************)
\* The outcomes the storage write of the command in input can have
OutcomesFor(input) ==
    IF input \in AddInputs /\ AddAccepted(input) THEN WriteOutcomes(0)
    ELSE IF input \in DoneInputs /\ ResolveId(view, Trim(input), KwDone).kind = "ok"
         THEN WriteOutcomes(Len(todos))
    ELSE IF input \in RemoveInputs /\ ResolveId(view, Trim(input), KwRemove).kind = "ok"
         THEN WriteOutcomes(Len(todos) - 1)
    ELSE {WOk}

\* App::apply_command on any input
Command ==
    \E input \in Inputs :
        \E w \in OutcomesFor(input) :
            \E r \in {execute_command(todos, view, file, input, w)} :
                /\ Len(r.todos) <= MaxTodos
                /\ todos' = r.todos
                /\ view' = r.view
                /\ error' = r.error
                /\ file' = r.file
                /\ UNCHANGED <<last, codec>>

FileShortened ==
    /\ file # <<>>
    /\ file' = SubSeq(file, 1, Len(file) - 1)
    /\ UNCHANGED <<todos, view, error, last, codec>>

SharedNext ==
    \/ Command
    \/ FileShortened

SharedSpec == Init /\ [][SharedNext]_vars

(***************************************************************************)
(* The codec on its own: a line is parsed, the task serialized, the text   *)
(* parsed again.                                                           *)
(***************************************************************************)
MaxTokens == 3

\* x
TokX == <<"x">>

\* (A)
TokPrio == <<"(", "A", ")">>

\* (1)
TokDigitPrio == <<"(", "1", ")">>

\* 2024-01-02
TokDate == <<"2", "0", "2", "4", "-", "0", "1", "-", "0", "2">>

\* foo
TokWord == <<"f", "o", "o">>

\* +p
TokProject == <<"+", "p">>

\* @c
TokContext == <<"@", "c">>

\* due:2024-03-01
TokDue == <<"d", "u", "e", ":", "2", "0", "2", "4", "-", "0", "3", "-", "0", "1">>

\* a:b
TokKv == <<"a", ":", "b">>

\* c=d
TokKv2 == <<"c", "=", "d">>

CodecTokens == {TokX, TokPrio, TokDigitPrio, TokDate, TokWord, TokProject, TokContext, TokDue, TokKv, TokKv2}

CodecLines == {JoinSp(ts) : ts \in SeqsUpTo(CodecTokens, MaxTokens)}

CodecInit ==
    /\ todos = <<>>
    /\ view = <<>>
    /\ error = None
    /\ file = <<>>
    /\ last = NoCommand
    /\ codec \in {[CodecIdle EXCEPT !.line = l] : l \in CodecLines}

CodecParse ==
    /\ codec.task = None
    /\ codec' = [codec EXCEPT !.task = Some(Parse(codec.line))]
    /\ UNCHANGED appVars

CodecFormat ==
    /\ codec.task # None
    /\ codec.text = None
    /\ codec' = [codec EXCEPT !.text = Some(Format(Unwrap(codec.task)))]
    /\ UNCHANGED appVars

CodecReparse ==
    /\ codec.text # None
    /\ codec.back = None
    /\ codec' = [codec EXCEPT !.back = Some(Parse(Unwrap(codec.text)))]
    /\ UNCHANGED appVars

CodecNext ==
    \/ CodecParse
    \/ CodecFormat
    \/ CodecReparse

CodecSpec == CodecInit /\ [][CodecNext]_vars

(***************************************************************************)
(* Properties                                                              *)
(***************************************************************************)
\* The step runs `done` (resp. `remove`), the argument resolved to an index
\* of the collection, and the storage write returned Ok.
DoneSucceeds == last'.input \in DoneInputs /\ last'.target # None /\ last'.w.ok

RemoveSucceeds == last'.input \in RemoveInputs /\ last'.target # None /\ last'.w.ok

\* The task at index idx (counted from 0) of a collection
At(ts, idx) == ts[idx + 1]

\* C1: once `done N` has run to completion the task at collection index
\* view[N-1] is completed, and if it was incomplete before the command its
\* completion_date is today.
C1_DoneCompletesTarget ==
    [][DoneSucceeds =>
         LET idx == Unwrap(last'.target)
         IN  /\ idx + 1 \in 1..Len(todos')
             /\ At(todos', idx).completion
             /\ (~At(todos, idx).completion =>
                     At(todos', idx).completion_date = Some(Today))]_vars

\* Two tasks that differ at most in completed / completion_date
SameButCompletion(a, b) ==
    [a EXCEPT !.completion = FALSE, !.completion_date = None]
        = [b EXCEPT !.completion = FALSE, !.completion_date = None]

\* C2: a successful `done N` or `remove N` changes only the task at
\* collection index view[N-1]: `done` keeps the length and every other task
\* and changes the target at most in completed / completion_date; `remove`
\* leaves exactly the previous collection without the element at that index.
C2_OnlyTargetChanges ==
    [][/\ DoneSucceeds =>
            LET idx == Unwrap(last'.target)
            IN  /\ Len(todos') = Len(todos)
                /\ \A j \in 1..Len(todos) : j # idx + 1 => todos'[j] = todos[j]
                /\ SameButCompletion(At(todos', idx), At(todos, idx))
       /\ RemoveSucceeds =>
            todos' = RemoveAt(todos, Unwrap(last'.target))]_vars

\* C3: after every command whose storage call succeeded the in-memory
\* collection equals what load_all returns from the persisted file.
C3_MemoryEqualsFile == last.w.ok => todos = load_all(file)

\* C4: whenever a command ends with an error message set, the collection,
\* the view and the persisted file are what they were before the command,
\* and the command made no storage write.
C4_ErrorLeavesStateAlone ==
    [][error' # None =>
         /\ todos' = todos
         /\ view' = view
         /\ file' = file
         /\ last'.writes = <<>>]_vars

\* C4 witness: a command has failed in a state with tasks and a view that
\* does not show all of them.
C4_Witness ==
    /\ error # None
    /\ todos # <<>>
    /\ Len(view) < Len(todos)
    /\ last.input \in AddInputs \cup DoneInputs \cup RemoveInputs \cup UnknownInputs

\* The argument of the `done` or `remove` command in input is missing, is
\* no positive integer, or lies outside 1..Len(v).
BadIdArgument(v, input) ==
    \/ input \in DoneInputs /\ ResolveId(v, Trim(input), KwDone).kind # "ok"
    \/ input \in RemoveInputs /\ ResolveId(v, Trim(input), KwRemove).kind # "ok"

\* C5: every `done` or `remove` command whose argument is missing, is no
\* positive integer or is out of range ends with an error message set.
C5_BadArgumentIsAnError ==
    [][BadIdArgument(view, last'.input) => error' # None]_vars

\* The classes of tokens a canonical line is made of, in Serialize order:
\* 1 `x`, 2 `(P)`, 3 a date, 4 a content word, 5 `+project`, 6 `@context`,
\* 7 a token with `:` or `=`.
TokenClass(t) ==
    IF t = <<"x">> THEN 1
    ELSE IF IsPriorityToken(t) THEN 2
    ELSE IF IsSome(ParseDate(t)) THEN 3
    ELSE IF StartsWith(t, <<"+">>) THEN 5
    ELSE IF StartsWith(t, <<"@">>) THEN 6
    ELSE IF Contains(t, ":") \/ Contains(t, "=") THEN 7
    ELSE 4

IsDueToken(t) == StartsWith(t, <<"d", "u", "e", ":">>)

CountWhere(ts, P(_)) == Cardinality({i \in 1..Len(ts) : P(ts[i])})

\* A well-formed line: tokens in the canonical order, each positional token
\* and each tag at most once (two dates only after `x`), at most one `due:`
\* token and at most one other `:`/`=` token.
WellFormed(line) ==
    LET ts == SplitWhitespace(line)
        IsClass1(t) == TokenClass(t) = 1
        IsClass2(t) == TokenClass(t) = 2
        IsClass3(t) == TokenClass(t) = 3
        IsClass5(t) == TokenClass(t) = 5
        IsClass6(t) == TokenClass(t) = 6
        IsOtherKv(t) == TokenClass(t) = 7 /\ ~IsDueToken(t)
    IN  /\ \A i \in 1..(Len(ts) - 1) : TokenClass(ts[i]) <= TokenClass(ts[i + 1])
        /\ CountWhere(ts, IsClass1) <= 1
        /\ CountWhere(ts, IsClass2) <= 1
        /\ CountWhere(ts, IsClass3) <= (IF CountWhere(ts, IsClass1) = 1 THEN 2 ELSE 1)
        /\ CountWhere(ts, IsClass5) <= 1
        /\ CountWhere(ts, IsClass6) <= 1
        /\ CountWhere(ts, IsDueToken) <= 1
        /\ CountWhere(ts, IsOtherKv) <= 1

\* C6: for every input line L, Parse(Serialize(Parse(L))) equals Parse(L)
\* in every field.
C6_RoundTripAnyLine ==
    codec.back # None => Unwrap(codec.back) = Unwrap(codec.task)

\* C7: Parse(Serialize(t)) = t for every task t that Parse produces from a
\* well-formed line.
C7_RoundTripWellFormed ==
    (codec.back # None /\ WellFormed(codec.line)) =>
        Unwrap(codec.back) = Unwrap(codec.task)

\* C8: when `done N` has succeeded and `done` is issued again for the same
\* task, the second command leaves the whole collection as the first left
\* it.
C8_SecondDoneIsNoOp ==
    [][(/\ last.input \in DoneInputs /\ last.target # None /\ last.w.ok
        /\ DoneSucceeds
        /\ last'.target = last.target) => todos' = todos]_vars

\* The step runs a command whose storage write returned an error.
WriteFails == last'.writes # <<>> /\ ~last'.w.ok

C10_ViewIsAllIndices ==
    (last.writes # <<>> /\ last.w.ok) => view = AllIndices(Len(todos))

\* C10 witness: `done 1` succeeded on a view whose first position showed
\* the second task of the collection.
C10_Witness ==
    /\ last.input = KwDone \o <<" ", "1">>
    /\ last.target = Some(1)
    /\ last.w.ok
    /\ Len(todos) = 2
    /\ view = <<0, 1>>

\* The step runs `add`, the text was accepted and append_one returned Ok.
AddSucceeds == last'.input \in AddInputs /\ last'.writes # <<>> /\ last'.w.ok

\* C11: after a successful `add` the view is the previous view with the
\* index of the appended task put at its end, whatever the previous view
\* was.
C11_AddExtendsView ==
    [][AddSucceeds => view' = Append(view, Len(todos))]_vars

\* The text typed after `add ` in input
AddArgument(input) == SubSeq(input, Len(KwAdd) + 2, Len(input))

\* Parse(text) with today's date as creation_date when the parse found none
StampedParse(text) ==
    LET p == Parse(text)
    IN  IF p.creation_date = None THEN [p EXCEPT !.creation_date = Some(Today)] ELSE p

\* C12: a successful `add <text>` appends exactly one task at the end of
\* the collection and leaves the tasks before it as they were; the new task
\* is Parse(<text>) with creation_date today when none was parsed (a parsed
\* one is kept), and its content is not empty.
C12_AddAppendsParsed ==
    [][AddSucceeds =>
         /\ Len(todos') = Len(todos) + 1
         /\ SubSeq(todos', 1, Len(todos)) = todos
         /\ todos'[Len(todos')] = StampedParse(AddArgument(last'.input))
         /\ ~IsBlank(todos'[Len(todos')].content)]_vars

\* C12 witness: `add 2024-01-02 tea` succeeded on a collection of one task
\* and the new task carries the date that was typed.
C12_Witness ==
    /\ last.input = KwAdd \o <<" ">> \o AddDated
    /\ last.writes # <<>>
    /\ last.w.ok
    /\ Len(todos) = 2
    /\ todos[2].creation_date = Some(<<2024, 1, 2>>)
    /\ todos[2].content = <<"t", "e", "a">>

\* The `add` command in input has no argument, or an argument whose parsed
\* content is empty.
AddWithoutContent(input) ==
    /\ input \in AddInputs
    /\ \/ Trim(input) = KwAdd
       \/ IsBlank(Parse(AddArgument(input)).content)

\* C13: `add` with no argument, or with an argument whose parsed content is
\* empty, is rejected: an error message is set and the collection, the view
\* and the persisted file stay as they were.
C13_AddWithoutContentRejected ==
    [][AddWithoutContent(last'.input) =>
         /\ error' # None
         /\ todos' = todos
         /\ view' = view
         /\ file' = file]_vars

\* C13 witness: `add +p` was rejected in a state with a task on file and a
\* view that shows none.
C13_Witness ==
    /\ last.input = KwAdd \o <<" ">> \o AddNoContent
    /\ error # None
    /\ todos # <<>>
    /\ file # <<>>
    /\ view = <<>>

\* Date a is earlier than date b
DateBefore(a, b) ==
    \/ a[1] < b[1]
    \/ a[1] = b[1] /\ a[2] < b[2]
    \/ a[1] = b[1] /\ a[2] = b[2] /\ a[3] < b[3]

\* v lists exactly the indices in S, each once
ListsExactly(v, S) ==
    /\ {v[k] : k \in 1..Len(v)} = S
    /\ Len(v) = Cardinality(S)

\* v is ascending by Before, indices of equal key in collection order
OrderedBy(v, Before(_, _)) ==
    \A a, b \in 1..Len(v) :
        a < b => \/ Before(v[a], v[b])
                 \/ ~Before(v[b], v[a]) /\ v[a] < v[b]

DueIndices(ts) ==
    {i - 1 : i \in {j \in 1..Len(ts) : ~ts[j].completion /\ ts[j].due # None}}

PriorityIndices(ts) ==
    {i - 1 : i \in {j \in 1..Len(ts) : ~ts[j].completion /\ ts[j].priority # None}}

\* C14: after `closest` (resp. `important`) the view holds exactly the
\* indices of the incomplete tasks that have a due date (resp. a priority),
\* each once, ascending by due date (resp. priority letter), tasks of equal
\* key in collection order.
C14_FilteredViewSorted ==
    LET DueBefore(i, j) ==
            DateBefore(Unwrap(At(todos, i).due), Unwrap(At(todos, j).due))
        PriorityBefore(i, j) ==
            CharKey(Unwrap(At(todos, i).priority)) < CharKey(Unwrap(At(todos, j).priority))
    IN  /\ last.input \in ClosestInputs =>
               ListsExactly(view, DueIndices(todos)) /\ OrderedBy(view, DueBefore)
        /\ last.input \in ImportantInputs =>
               ListsExactly(view, PriorityIndices(todos)) /\ OrderedBy(view, PriorityBefore)

\* C14 witness: `closest` has put the second task, due earlier, before the
\* first.
C14_Witness ==
    /\ last.input \in ClosestInputs
    /\ view = <<1, 0>>
    /\ DateBefore(Unwrap(todos[2].due), Unwrap(todos[1].due))

\* C15: `closest` and `important` leave the collection and the persisted
\* file as they were, write nothing and set no error.
C15_FilterCommandsArePure ==
    [][last'.input \in ClosestInputs \cup ImportantInputs =>
         /\ todos' = todos
         /\ file' = file
         /\ last'.writes = <<>>
         /\ error' = None]_vars

\* C15 witness: `important` has narrowed the view of a collection that
\* differs from what the file holds.
C15_Witness ==
    /\ last.input \in ImportantInputs
    /\ error = None
    /\ todos # <<>>
    /\ todos # load_all(file)
    /\ Len(view) < Len(todos)

\* C16: in every reachable state every task of the collection that is not
\* completed has no completion_date.
C16_IncompleteHasNoCompletionDate ==
    \A i \in 1..Len(todos) : ~todos[i].completion => todos[i].completion_date = None

\* C16 witness: the collection holds a task that `done` completed today
\* next to one that is not completed.
C16_Witness ==
    /\ Len(todos) = 2
    /\ todos[1].completion
    /\ todos[1].completion_date = Some(Today)
    /\ ~todos[2].completion
    /\ todos[2].creation_date # None

Letters ==
    {"A", "B", "C", "D", "E", "F", "G", "H", "I", "J", "K", "L", "M",
     "N", "O", "P", "Q", "R", "S", "T", "U", "V", "W", "X", "Y", "Z",
     "a", "b", "c", "d", "e", "f", "g", "h", "i", "j", "k", "l", "m",
     "n", "o", "p", "q", "r", "s", "t", "u", "v", "w", "x", "y", "z"}

\* `(` + exactly one letter + `)`
IsLetterPriority(tok) ==
    Len(tok) = 3 /\ tok[1] = "(" /\ tok[2] \in Letters /\ tok[3] = ")"

\* Does the list of tokens start with the completion marker?
HasMarker(ts) == Len(ts) >= 1 /\ ts[1] = <<"x">>

\* The position of the first token after the completion marker and a
\* `(letter)` priority, counted from 1
DatePosition(ts) ==
    LET m == IF HasMarker(ts) THEN 1 ELSE 0
    IN  IF m + 1 <= Len(ts) /\ IsLetterPriority(ts[m + 1]) THEN m + 2 ELSE m + 1

\* The token at position i of ts parses as a date
DateTokenAt(ts, i) == i <= Len(ts) /\ ParseDate(ts[i]) # None

\* C17: when the two-date case does not apply and the token in date
\* position parses as a date, Parse takes it as creation_date whether or
\* not the line starts with `x`, and the content is made of the tokens after
\* it only.
C17_SingleDateIsCreationDate ==
    LET ts == SplitWhitespace(codec.line)
        i == DatePosition(ts)
        twoDates == HasMarker(ts) /\ DateTokenAt(ts, i) /\ DateTokenAt(ts, i + 1)
        t == Unwrap(codec.task)
    IN  (codec.task # None /\ ~twoDates /\ DateTokenAt(ts, i)) =>
            /\ t.creation_date = ParseDate(ts[i])
            /\ t.content = JoinSp(Classify(SubSeq(ts, i + 1, Len(ts)), EmptyDescription).content)

\* s has no leading and no trailing whitespace and no two spaces in a row
SingleSpaced(s) ==
    /\ s # <<>> => s[1] \notin WhiteSpace /\ s[Len(s)] \notin WhiteSpace
    /\ \A i \in 1..(Len(s) - 1) : ~(s[i] = " " /\ s[i + 1] = " ")

\* C18: for every task Parse produces, tasks with empty content included,
\* the text Serialize returns has its tokens separated by exactly one space,
\* with no leading whitespace, no trailing whitespace and no two consecutive
\* spaces.
C18_SerializeSingleSpaced ==
    codec.text # None => SingleSpaced(Unwrap(codec.text))

\* A token shaped key:value or key=value that is neither a tag nor a
\* `due:` token
IsSupplementToken(t) ==
    /\ ~StartsWith(t, <<"+">>)
    /\ ~StartsWith(t, <<"@">>)
    /\ ~IsDueToken(t)
    /\ Contains(t, ":") \/ Contains(t, "=")

\* The first token of ts that IsSupplementToken, if any
FirstSupplementToken(ts) ==
    LET at == {i \in 1..Len(ts) : IsSupplementToken(ts[i])}
    IN  IF at = {} THEN None
        ELSE Some(ts[CHOOSE i \in at : \A j \in at : i <= j])

\* C19: the supplement of Parse(line) is the first token of the description,
\* left to right, that contains `:` or `=` and is no `due:` token, and is
\* absent when there is none; a later `due:` token does not replace it.
C19_SupplementIsFirstKeyValue ==
    codec.task # None =>
        Unwrap(codec.task).supplement = FirstSupplementToken(SplitWhitespace(codec.line))

\* C20: Parse sets priority only when the token in priority position is
\* `(` + one letter + `)`, and then to that letter; a parenthesised token of
\* three characters whose middle character is no letter is not taken as
\* priority and stays in the description.
C20_PriorityIsALetter ==
    LET ts == SplitWhitespace(codec.line)
        p == IF HasMarker(ts) THEN 2 ELSE 1
        t == Unwrap(codec.task)
    IN  codec.task # None =>
            IF p <= Len(ts) /\ IsLetterPriority(ts[p])
            THEN t.priority = Some(ts[p][2])
            ELSE /\ t.priority = None
                 /\ (p <= Len(ts) /\ IsPriorityToken(ts[p])) =>
                        StartsWith(t.content, ts[p])

\* C21: after startup and after any sequence of commands, `list` reloading
\* a file that has become shorter included, every element of the view is an
\* index of the collection (0 <= i < length) and no index occurs twice.
C21_ViewIndexesCollection ==
    /\ \A k \in 1..Len(view) : view[k] \in 0..(Len(todos) - 1)
    /\ \A j, k \in 1..Len(view) : j # k => view[j] # view[k]

\* C21 witness: the file has become shorter than the collection, and the
\* view shows the last task of the collection first, as `closest` or
\* `important` ordered it.
C21_Witness ==
    /\ Len(file) < Len(todos)
    /\ view = <<1, 0>>
    /\ error = None

====
